---- MODULE Spec2Model ----
(***************************************************************************)
(* The conversation flow engine of the NeedGod script app                  *)
(* (src/needgod_enhanced_app.py): the script graph built by parse_script,  *)
(* the answer resolver NeedGodScriptFlow.get_next_question, and the        *)
(* Streamlit session driven by main and process_answer.                    *)
(*                                                                         *)
(* A Python str is a sequence of one-character strings, so that lower(),   *)
(* strip() and the substring operator `in` are computed, not assumed.      *)
(* A state identifier is Num(n) for the int n and Named(t) for the str t;  *)
(* None is Python's None.                                                  *)
(***************************************************************************)
EXTENDS Integers, Sequences, FiniteSets, TLC

VARIABLES
    script_data,           \* st.session_state.script_flow.script_data["questions"]
    current_question,      \* st.session_state.current_question
    conversation_history,  \* st.session_state.conversation_history
    flow_history,          \* st.session_state.script_flow.conversation_history
    pc,                    \* "rendered": main has drawn the page and waits for a click;
                           \* "rerun": a handler has called st.rerun(), main runs next
    next_q,                \* process_answer's local next_q, as left by its last call
    custom_answer,         \* the text typed in the "Type your answer:" box
    answered,              \* entries recorded by process_answer since the last reset
    resets,                \* "Reset Conversation" clicks since the last answer
    current_q,             \* get_next_question's argument current_q (resolver calls)
    answer,                \* get_next_question's argument answer     (resolver calls)
    result,                \* what the resolver call returned
    trigger,               \* the answer_key of one evaluation of line 709
    matched                \* what the test of line 709 gave for trigger and answer

vars == <<script_data, current_question, conversation_history, flow_history, pc, next_q,
          custom_answer, answered, resets, current_q, answer, result,
          trigger, matched>>

session_vars == <<script_data, current_question, conversation_history, flow_history, pc, next_q,
                  custom_answer, answered, resets>>

resolver_vars == <<current_q, answer, result, trigger, matched>>

(***************************************************************************)
(* Values                                                                  *)
(***************************************************************************)
Num(n) == [num |-> n]

Named(t) == [tag |-> t]

None == [none |-> TRUE]

\* An exception of class e leaving the call instead of a value.
Raised(e) == [raised |-> e]

\* No call has returned yet (the local is unbound).
Unset == [unset |-> TRUE]

\* isinstance(v, (int, float))
IsNumber(v) == DOMAIN v = {"num"}

\* isinstance(v, str)
IsStr(v) == DOMAIN v = {"tag"}

(***************************************************************************)
(* str methods                                                             *)
(***************************************************************************)
UpperCase == <<"A","B","C","D","E","F","G","H","I","J","K","L","M",
               "N","O","P","Q","R","S","T","U","V","W","X","Y","Z">>

LowerCase == <<"a","b","c","d","e","f","g","h","i","j","k","l","m",
               "n","o","p","q","r","s","t","u","v","w","x","y","z">>

\* The characters str.strip() removes.
Whitespace == {" ", "\t", "\n"}

LowerChar(c) ==
    IF \E i \in 1..Len(UpperCase) : UpperCase[i] = c
    THEN LowerCase[CHOOSE i \in 1..Len(UpperCase) : UpperCase[i] = c]
    ELSE c

\* s.lower() left out: the case of the answer is kept
lowerKeepCase(s) == s

\* s.lower()
lower(s) == [i \in 1..Len(s) |-> LowerChar(s[i])]

RECURSIVE lstrip(_)
lstrip(s) ==
    IF s # <<>> /\ Head(s) \in Whitespace THEN lstrip(Tail(s)) ELSE s

RECURSIVE rstrip(_)
rstrip(s) ==
    IF s # <<>> /\ s[Len(s)] \in Whitespace
    THEN rstrip(SubSeq(s, 1, Len(s) - 1))
    ELSE s

\* s.strip()
strip(s) == rstrip(lstrip(s))

\* x in y, for two strs
in(x, y) ==
    \E i \in 0..(Len(y) - Len(x)) : SubSeq(y, i + 1, i + Len(x)) = x

(***************************************************************************)
(* parse_script: the questions literal, in declaration order               *)
(***************************************************************************)
questions ==
     1 :> [text |-> "What do you think happens to us after we die?",
      answers |-> <<
        (* "heaven and hell" *) [key |-> <<"h","e","a","v","e","n"," ","a","n","d"," ","h","e","l","l">>, next |-> Named("heaven_question"), skip |-> Num(2)],
        (* "reincarnation" *) [key |-> <<"r","e","i","n","c","a","r","n","a","t","i","o","n">>, next |-> Num(2)],
        (* "other_theory" *) [key |-> <<"o","t","h","e","r","_","t","h","e","o","r","y">>, next |-> Num(2)],
        (* "not sure" *) [key |-> <<"n","o","t"," ","s","u","r","e">>, next |-> Num(2)] >>]
  @@ 2 :> [text |-> "Do you believe there's a God?",
      answers |-> <<
        (* "yes" *) [key |-> <<"y","e","s">>, next |-> Num(3)],
        (* "no" *) [key |-> <<"n","o">>, next |-> Named("god_analogy"), skip |-> Num(3)] >>]
  @@ 3 :> [text |-> "Since we know there is a God, it matters how we live. So, do you think you are a good person?",
      answers |-> <<
        (* "yes" *) [key |-> <<"y","e","s">>, next |-> Num(4)],
        (* "no" *) [key |-> <<"n","o">>, next |-> Num(7)] >>]
  @@ 4 :> [text |-> "Have you ever told a lie?",
      answers |-> <<
        (* "yes" *) [key |-> <<"y","e","s">>, next |-> Num(7)],
        (* "no" *) [key |-> <<"n","o">>, next |-> Named("lie_response")] >>]
  @@ 5 :> [text |-> "Have you ever used bad language?",
      answers |-> <<
        (* "yes" *) [key |-> <<"y","e","s">>, next |-> Num(7)],
        (* "no" *) [key |-> <<"n","o">>, next |-> Num(6)] >>]
  @@ 6 :> [text |-> "Have you ever been angry or disrespected someone?",
      answers |-> <<
        (* "yes" *) [key |-> <<"y","e","s">>, next |-> Num(7)],
        (* "no" *) [key |-> <<"n","o">>, next |-> Named("sin_response")] >>]
  @@ 7 :> [text |-> "We've all done these things and so if God was to judge you based on these things would you be innocent or guilty?",
      answers |-> <<
        (* "guilty" *) [key |-> <<"g","u","i","l","t","y">>, next |-> Num(8)],
        (* "innocent" *) [key |-> <<"i","n","n","o","c","e","n","t">>, next |-> Named("innocent_response")] >>]
  @@ 8 :> [text |-> "So would we deserve a reward or punishment?",
      answers |-> <<
        (* "punishment" *) [key |-> <<"p","u","n","i","s","h","m","e","n","t">>, next |-> Num(9)],
        (* "reward" *) [key |-> <<"r","e","w","a","r","d">>, next |-> Named("reward_response")] >>]
  @@ 9 :> [text |-> "Does that sound like a place in Heaven or Hell?",
      answers |-> <<
        (* "hell" *) [key |-> <<"h","e","l","l">>, next |-> Num(10)],
        (* "heaven" *) [key |-> <<"h","e","a","v","e","n">>, next |-> Named("heaven_response")] >>]
  @@ 10 :> [text |-> "So how do you think you could avoid your Hell punishment?",
      answers |-> <<
        (* "not sure" *) [key |-> <<"n","o","t"," ","s","u","r","e">>, next |-> Num(11)],
        (* "good things" *) [key |-> <<"g","o","o","d"," ","t","h","i","n","g","s">>, next |-> Named("good_things_response")],
        (* "forgiveness" *) [key |-> <<"f","o","r","g","i","v","e","n","e","s","s">>, next |-> Named("forgiveness_response")],
        (* "repent" *) [key |-> <<"r","e","p","e","n","t">>, next |-> Named("repent_response")] >>]
  @@ 11 :> [text |-> "What we need is someone else who would take the punishment for us. If someone took 100% of your Hell punishment, how much would be left for you to take?",
      answers |-> <<
        (* "nothing" *) [key |-> <<"n","o","t","h","i","n","g">>, next |-> Num(12)],
        (* "zero" *) [key |-> <<"z","e","r","o">>, next |-> Num(12)],
        (* "0" *) [key |-> <<"0">>, next |-> Num(12)] >>]
  @@ 12 :> [text |-> "So if you have no more Hell punishment, where will you go when you die?",
      answers |-> <<
        (* "heaven" *) [key |-> <<"h","e","a","v","e","n">>, next |-> Num(13)],
        (* "hell" *) [key |-> <<"h","e","l","l">>, next |-> Named("hell_response")] >>]
  @@ 13 :> [text |-> "That was Jesus, that's why he died on the cross, to take the punishment for our sins and he rose from the dead 3 days later.",
      answers |-> <<
        (* "continue" *) [key |-> <<"c","o","n","t","i","n","u","e">>, next |-> Num(14)] >>]
  @@ 14 :> [text |-> "So if Jesus does that for you, where do you go when you die?",
      answers |-> <<
        (* "heaven" *) [key |-> <<"h","e","a","v","e","n">>, next |-> Num(15)],
        (* "hell" *) [key |-> <<"h","e","l","l">>, next |-> Named("hell_response_2")] >>]
  @@ 15 :> [text |-> "So why would God let you into heaven?",
      answers |-> <<
        (* "jesus paid" *) [key |-> <<"j","e","s","u","s"," ","p","a","i","d">>, next |-> Num(16)],
        (* "because jesus paid for my sins" *) [key |-> <<"b","e","c","a","u","s","e"," ","j","e","s","u","s"," ","p","a","i","d"," ","f","o","r"," ","m","y"," ","s","i","n","s">>, next |-> Num(16)] >>]
  @@ 16 :> [text |-> "Now he offers this to us as a free gift and all I have to do to receive this free gift is to simply trust that Jesus died on the cross paying for 100% of our Hell punishment.",
      answers |-> <<
        (* "continue" *) [key |-> <<"c","o","n","t","i","n","u","e">>, next |-> Num(17)] >>]
  @@ 17 :> [text |-> "So if you trust that Jesus has paid for all of your sins now and tomorrow you sin 5 more times and then die, would you go to Heaven or Hell?",
      answers |-> <<
        (* "heaven" *) [key |-> <<"h","e","a","v","e","n">>, next |-> Num(18)],
        (* "hell" *) [key |-> <<"h","e","l","l">>, next |-> Named("hell_response_3")] >>]
  @@ 18 :> [text |-> "and why heaven?",
      answers |-> <<
        (* "jesus paid" *) [key |-> <<"j","e","s","u","s"," ","p","a","i","d">>, next |-> Num(19)],
        (* "because jesus paid for my sins" *) [key |-> <<"b","e","c","a","u","s","e"," ","j","e","s","u","s"," ","p","a","i","d"," ","f","o","r"," ","m","y"," ","s","i","n","s">>, next |-> Num(19)] >>]
  @@ 19 :> [text |-> "But if you don't trust Jesus paid for your sins, where would you end up?",
      answers |-> <<
        (* "hell" *) [key |-> <<"h","e","l","l">>, next |-> Num(20)],
        (* "heaven" *) [key |-> <<"h","e","a","v","e","n">>, next |-> Named("gift_response")] >>]
  @@ 20 :> [text |-> "..and since you don't want to go to Hell, WHEN should you start trusting that Jesus has paid for your sins?",
      answers |-> <<
        (* "now" *) [key |-> <<"n","o","w">>, next |-> Num(21)],
        (* "before you die" *) [key |-> <<"b","e","f","o","r","e"," ","y","o","u"," ","d","i","e">>, next |-> Named("when_response")] >>]
  @@ 21 :> [text |-> "So if you stood before God right now and he asked you \"Why should I let you into Heaven?\" what would you say?",
      answers |-> <<
        (* "because jesus paid for my sins" *) [key |-> <<"b","e","c","a","u","s","e"," ","j","e","s","u","s"," ","p","a","i","d"," ","f","o","r"," ","m","y"," ","s","i","n","s">>, next |-> Num(22)],
        (* "jesus paid" *) [key |-> <<"j","e","s","u","s"," ","p","a","i","d">>, next |-> Num(22)] >>]
  @@ 22 :> [text |-> "Now, imagine a friend of yours says they are going to heaven because they are a good person, where would they go when they die?",
      answers |-> <<
        (* "hell" *) [key |-> <<"h","e","l","l">>, next |-> Num(23)],
        (* "heaven" *) [key |-> <<"h","e","a","v","e","n">>, next |-> Named("friend_response")] >>]
  @@ 23 :> [text |-> "But another friend comes to you and says \"I'm going to heaven because of two reasons. The first reason is because Jesus died for my sins and the second reason is because I've been a good person.\" Would that person go to Heaven or Hell?",
      answers |-> <<
        (* "hell" *) [key |-> <<"h","e","l","l">>, next |-> Num(24)],
        (* "heaven" *) [key |-> <<"h","e","a","v","e","n">>, next |-> Named("two_reasons_response")] >>]
  @@ 24 :> [text |-> "So, on a scale of 0 -100%, how sure are you that you will go to Heaven when you die?",
      answers |-> <<
        (* "100%" *) [key |-> <<"1","0","0","%">>, next |-> Num(25)],
        (* "100" *) [key |-> <<"1","0","0">>, next |-> Num(25)] >>]
  @@ 25 :> [text |-> "So, does doing good things play any part in getting you to heaven?",
      answers |-> <<
        (* "no" *) [key |-> <<"n","o">>, next |-> Num(26)],
        (* "yes" *) [key |-> <<"y","e","s">>, next |-> Named("good_deeds_response")] >>]
  @@ 26 :> [text |-> "Do you need to ask for forgiveness to go to Heaven?",
      answers |-> <<
        (* "no" *) [key |-> <<"n","o">>, next |-> Num(27)],
        (* "yes" *) [key |-> <<"y","e","s">>, next |-> Named("forgiveness_response_2")] >>]
  @@ 27 :> [text |-> "Do you need to be baptized to go to Heaven?",
      answers |-> <<
        (* "no" *) [key |-> <<"n","o">>, next |-> Num(28)],
        (* "yes" *) [key |-> <<"y","e","s">>, next |-> Named("baptism_response")] >>]
  @@ 28 :> [text |-> "So if these things don't get us to Heaven, why do we do good things?",
      answers |-> <<
        (* "thankful" *) [key |-> <<"t","h","a","n","k","f","u","l">>, next |-> Num(29)],
        (* "because we are thankful" *) [key |-> <<"b","e","c","a","u","s","e"," ","w","e"," ","a","r","e"," ","t","h","a","n","k","f","u","l">>, next |-> Num(29)] >>]
  @@ 29 :> [text |-> "Do you know how you can find out more about Jesus?",
      answers |-> <<
        (* "bible" *) [key |-> <<"b","i","b","l","e">>, next |-> Num(30)],
        (* "the bible" *) [key |-> <<"t","h","e"," ","b","i","b","l","e">>, next |-> Num(30)] >>]
  @@ 30 :> [text |-> "Yep! Do you have a bible and do you read it much?",
      answers |-> <<
        (* "yes" *) [key |-> <<"y","e","s">>, next |-> Num(31)],
        (* "no" *) [key |-> <<"n","o">>, next |-> Named("bible_link")] >>]
  @@ 31 :> [text |-> "Think of it like this, If you ate food only once a week, would you be very strong?",
      answers |-> <<
        (* "no" *) [key |-> <<"n","o">>, next |-> Num(32)] >>]
  @@ 32 :> [text |-> "So if the bible is our spiritual food, how often do you think you should read the bible then to be strong spiritually?",
      answers |-> <<
        (* "everyday" *) [key |-> <<"e","v","e","r","y","d","a","y">>, next |-> Num(34)],
        (* "every day" *) [key |-> <<"e","v","e","r","y"," ","d","a","y">>, next |-> Num(34)] >>]
  @@ 34 :> [text |-> "Do you go to church?... what kind of church is it?",
      answers |-> <<
        (* "yes" *) [key |-> <<"y","e","s">>, next |-> Num(35)],
        (* "no" *) [key |-> <<"n","o">>, next |-> Named("church_link")] >>]
  @@ 35 :> [text |-> "Do they teach the same message we've spoken about here to be saved from our sins?",
      answers |-> <<
        (* "yes" *) [key |-> <<"y","e","s">>, next |-> Num(36)],
        (* "no" *) [key |-> <<"n","o">>, next |-> Named("wrong_church")] >>]
  @@ 36 :> [text |-> "Also, think of your family and friends, if you asked them, \"What's the reason you'll go to heaven?\" what would their answer be?",
      answers |-> <<
        (* "jesus" *) [key |-> <<"j","e","s","u","s">>, next |-> Num(37)],
        (* "good deeds" *) [key |-> <<"g","o","o","d"," ","d","e","e","d","s">>, next |-> Named("family_response")] >>]
  @@ 37 :> [text |-> "And since you don't want them to go to hell, how could you help them not to end up there?",
      answers |-> <<
        (* "tell them" *) [key |-> <<"t","e","l","l"," ","t","h","e","m">>, next |-> Num(38)],
        (* "tell them about the gospel" *) [key |-> <<"t","e","l","l"," ","t","h","e","m"," ","a","b","o","u","t"," ","t","h","e"," ","g","o","s","p","e","l">>, next |-> Num(38)] >>]
  @@ 38 :> [text |-> "So let me ask you, What if God asked you this \"Why should I not send you to hell for all the sins you've done\", how would you answer?",
      answers |-> <<
        (* "jesus paid" *) [key |-> <<"j","e","s","u","s"," ","p","a","i","d">>, next |-> Num(39)],
        (* "because jesus paid for my sins" *) [key |-> <<"b","e","c","a","u","s","e"," ","j","e","s","u","s"," ","p","a","i","d"," ","f","o","r"," ","m","y"," ","s","i","n","s">>, next |-> Num(39)] >>]
  @@ 39 :> [text |-> "Now, remember at the beginning of this chat, what DID you think was getting you to heaven?",
      answers |-> <<
        (* "good things" *) [key |-> <<"g","o","o","d"," ","t","h","i","n","g","s">>, next |-> Named("conclusion")],
        (* "asking for forgiveness" *) [key |-> <<"a","s","k","i","n","g"," ","f","o","r"," ","f","o","r","g","i","v","e","n","e","s","s">>, next |-> Named("conclusion")] >>]

\* get_question: dict.get, None for a key the dict does not hold
get_question(question_num) ==
    IF IsNumber(question_num) /\ question_num.num \in DOMAIN script_data
    THEN script_data[question_num.num]
    ELSE None

\* Python truth value of an Optional state identifier or of a dict
Truthy(v) == v # None /\ v # Num(0) /\ v # Named("")

\* line 709 with its second disjunct dropped
KeyMatchesForward(answer_key, answer_lower) == in(answer_key, answer_lower)

\* the test of line 709 for one answer_key
KeyMatches(answer_key, answer_lower) ==
    in(answer_key, answer_lower) \/ in(answer_lower, answer_key)

\* the for loop of lines 708-764: the index of the rule it returns from, 0 if
\* it runs to the end
RECURSIVE ScanFrom(_, _, _)
ScanFrom(answers, i, answer_lower) ==
    IF i > Len(answers) THEN 0
    ELSE IF KeyMatches(answers[i].key, answer_lower) THEN i
    ELSE ScanFrom(answers, i + 1, answer_lower)

\* the loop run backwards: the last matching rule, not the first
RECURSIVE ScanBack(_, _, _)
ScanBack(answers, i, answer_lower) ==
    IF i < 1 THEN 0
    ELSE IF KeyMatches(answers[i].key, answer_lower) THEN i
    ELSE ScanBack(answers, i - 1, answer_lower)

ScanRulesLast(answers, answer_lower) == ScanBack(answers, Len(answers), answer_lower)

\* the loop of line 708 entered at the second declared rule
ScanRulesSkipFirst(answers, answer_lower) == ScanFrom(answers, 2, answer_lower)

ScanRules(answers, answer_lower) == ScanFrom(answers, 1, answer_lower)

\* line 767 with the override hung on the wrong state
HeavenAndHellAtTwo(q, answer_lower) ==
    q = Num(2) /\ in(<<"h","e","a","v","e","n">>, answer_lower)
               /\ in(<<"h","e","l","l">>, answer_lower)

\* line 767
HeavenAndHell(q, answer_lower) ==
    q = Num(1) /\ in(<<"h","e","a","v","e","n">>, answer_lower)
               /\ in(<<"h","e","l","l">>, answer_lower)

\* line 771
OtherTheory(q, answer_lower) ==
    q = Num(1) /\ ( in(<<"r","e","i","n","c","a","r","n","a","t","i","o","n">>, answer_lower)
                    \/ in(<<"o","t","h","e","r">>, answer_lower)
                    \/ in(<<"n","o","t"," ","s","u","r","e">>, answer_lower) )

\* line 775 without its membership test
NextSequentialUnchecked(q) == Num(q.num + 1)

\* line 774 without its + 1
NextSequentialSame(q) ==
    IF ~IsNumber(q) THEN Raised("TypeError")
    ELSE IF q.num \in DOMAIN script_data THEN Num(q.num) ELSE None

\* lines 774-775
NextSequential(q) ==
    IF ~IsNumber(q) THEN Raised("TypeError")    \* str + int
    ELSE IF q.num + 1 \in DOMAIN script_data THEN Num(q.num + 1) ELSE None

\* lines 766-772 with the two tests of question 1 in the other order
AfterScanOtherFirst(q, answer_lower) ==
    IF OtherTheory(q, answer_lower) THEN Num(2)
    ELSE IF HeavenAndHell(q, answer_lower) THEN Named("heaven_question")
    ELSE NextSequential(q)

\* lines 766-775, reached when the loop returned from no rule
AfterScan(q, answer_lower) ==
    IF HeavenAndHell(q, answer_lower) THEN Named("heaven_question")
    ELSE IF OtherTheory(q, answer_lower) THEN Num(2)
    ELSE NextSequential(q)

\* flow_data["next"] (line 710)
NextAction(flow_data) ==
    IF "next" \in DOMAIN flow_data THEN flow_data.next ELSE Raised("KeyError")

\* lines 701-703 without the test for a missing node: None["answers"]
get_next_question_NoGuard(q, a) ==
    LET question_data == get_question(q)
        answer_lower  == strip(lower(a))
    IN  IF ~Truthy(question_data) THEN Raised("TypeError")
        ELSE LET hit == ScanRules(question_data.answers, answer_lower)
             IN  IF hit # 0 THEN NextAction(question_data.answers[hit])
                 ELSE AfterScan(q, answer_lower)

\* the overrides of lines 766-772 tried before the rule loop
get_next_question_OverridesFirst(q, a) ==
    LET question_data == get_question(q)
        answer_lower  == strip(lower(a))
    IN  IF ~Truthy(question_data) THEN None
        ELSE IF HeavenAndHell(q, answer_lower) THEN Named("heaven_question")
        ELSE IF OtherTheory(q, answer_lower) THEN Num(2)
        ELSE LET hit == ScanRules(question_data.answers, answer_lower)
             IN  IF hit # 0 THEN NextAction(question_data.answers[hit])
                 ELSE NextSequential(q)

\* line 775 counting on from the recorded answers and not from current_q:
\* next_q = len(self.conversation_history) + 1
get_next_question_CountsHistory(q, a) ==
    LET question_data == get_question(q)
        answer_lower  == strip(lower(a))
    IN  IF ~Truthy(question_data) THEN None
        ELSE LET hit == ScanRules(question_data.answers, answer_lower)
             IN  IF hit # 0 THEN NextAction(question_data.answers[hit])
                 ELSE IF AfterScan(q, answer_lower) = NextSequential(q)
                      THEN NextSequential(Num(Len(flow_history) + 1))
                      ELSE AfterScan(q, answer_lower)

get_next_question(q, a) ==
    LET question_data == get_question(q)
        answer_lower  == strip(lower(a))
    IN  IF ~Truthy(question_data) THEN None
        ELSE LET hit == ScanRules(question_data.answers, answer_lower)
             IN  IF hit # 0
                 \* every arm of the if/elif chain of lines 713-764 returns next_action
                 THEN NextAction(question_data.answers[hit])
                 ELSE AfterScan(q, answer_lower)

(***************************************************************************)
(* Bounds and inputs                                                       *)
(***************************************************************************)
\* longest history the operator builds in Spec
MaxHist == 4

\* longest history the operator builds in SpecDeep
MaxHistDeep == 40

\* longest answer enumerated letter by letter
MaxAnsLen == 2

\* largest integer the resolver is applied to (the graph's keys end at 39)
MaxStateNum == 41

\* most "Reset Conversation" clicks in a row
MaxResets == 2

Alphabet == {"n", "o", "e", "y", "s", " "}

RECURSIVE AnswersUpTo(_)
AnswersUpTo(n) ==
    IF n = 0 THEN {<<>>}
    ELSE LET shorter == AnswersUpTo(n - 1)
         IN  shorter \cup {Append(s, c) : s \in shorter, c \in Alphabet}

\* answers the resolver is applied to: the examples of the script and of its
\* documentation, with variants in case, outer and inner whitespace
ScriptedAnswers ==
    { (* "" *) <<>>
    , (* "   " *) <<" "," "," ">>
    , (* " \t" *) <<" ","\t">>
    , (* "banana" *) <<"b","a","n","a","n","a">>
    , (* "yes" *) <<"y","e","s">>
    , (* "no" *) <<"n","o">>
    , (* " YES " *) <<" ","Y","E","S"," ">>
    , (* "No" *) <<"N","o">>
    , (* "yes please" *) <<"y","e","s"," ","p","l","e","a","s","e">>
    , (* "ok" *) <<"o","k">>
    , (* "okay" *) <<"o","k","a","y">>
    , (* "yes and no" *) <<"y","e","s"," ","a","n","d"," ","n","o">>
    , (* "not sure" *) <<"n","o","t"," ","s","u","r","e">>
    , (* "jesus paid" *) <<"j","e","s","u","s"," ","p","a","i","d">>
    , (* "paid" *) <<"p","a","i","d">>
    , (* "jesus paid for my sins" *) <<"j","e","s","u","s"," ","p","a","i","d"," ","f","o","r"," ","m","y"," ","s","i","n","s">>
    , (* "I believe in Heaven and Hell" *) <<"I"," ","b","e","l","i","e","v","e"," ","i","n"," ","H","e","a","v","e","n"," ","a","n","d"," ","H","e","l","l">>
    , (* "reincarnation maybe" *) <<"r","e","i","n","c","a","r","n","a","t","i","o","n"," ","m","a","y","b","e">>
    , (* "hell heaven" *) <<"h","e","l","l"," ","h","e","a","v","e","n">>
    , (* "Heaven or Hell" *) <<"H","e","a","v","e","n"," ","o","r"," ","H","e","l","l">>
    , (* "heaven, hell or other" *) <<"h","e","a","v","e","n",","," ","h","e","l","l"," ","o","r"," ","o","t","h","e","r">>
    , (* "not sure, heaven or hell" *) <<"n","o","t"," ","s","u","r","e",","," ","h","e","a","v","e","n"," ","o","r"," ","h","e","l","l">>
    , (* "another way" *) <<"a","n","o","t","h","e","r"," ","w","a","y">>
    , (* "hello" *) <<"h","e","l","l","o">>
    , (* "other" *) <<"o","t","h","e","r">>
    , (* "heaven" *) <<"h","e","a","v","e","n">>
    , (* "hell" *) <<"h","e","l","l">>
    , (* "everyday" *) <<"e","v","e","r","y","d","a","y">>
    , (* "every day" *) <<"e","v","e","r","y"," ","d","a","y">>
    , (* "every  day" *) <<"e","v","e","r","y"," "," ","d","a","y">>
    , (* "Every Day." *) <<"E","v","e","r","y"," ","D","a","y",".">>
    , (* "good things" *) <<"g","o","o","d"," ","t","h","i","n","g","s">>
    , (* "asking for forgiveness" *) <<"a","s","k","i","n","g"," ","f","o","r"," ","f","o","r","g","i","v","e","n","e","s","s">>
    , (* "100%" *) <<"1","0","0","%">>
    , (* "0" *) <<"0">>
    , (* "guilty" *) <<"g","u","i","l","t","y">>
    , (* "nothing" *) <<"n","o","t","h","i","n","g">> }

\* texts the operator types into the custom answer box
CustomAnswers ==
    { (* "" *) <<>>
    , (* "  " *) <<" "," ">>
    , (* "banana" *) <<"b","a","n","a","n","a">>
    , (* " No " *) <<" ","N","o"," ">>
    , (* "hell heaven" *) <<"h","e","l","l"," ","h","e","a","v","e","n">> }

\* texts of an operator who types the same answer to every question
DeepAnswers ==
    { (* "x" *) <<"x">>
    , (* "everyday" *) <<"e","v","e","r","y","d","a","y">>
    , (* "every day" *) <<"e","v","e","r","y"," ","d","a","y">>
    , (* "no" *) <<"n","o">>
    , (* "yes" *) <<"y","e","s">>
    , (* "hell" *) <<"h","e","l","l">>
    , (* "good things" *) <<"g","o","o","d"," ","t","h","i","n","g","s">>
    , (* "jesus paid" *) <<"j","e","s","u","s"," ","p","a","i","d">>
    , (* "not sure" *) <<"n","o","t"," ","s","u","r","e">>
    , (* "e" *) <<"e">> }

RawAnswers == ScriptedAnswers \cup AnswersUpTo(MaxAnsLen)

\* every str some rule of the graph names as its next
NamedTargets ==
    {questions[q].answers[i].next.tag :
        <<q, i>> \in {<<q, i>> \in (DOMAIN questions) \X (1..4) :
                        i <= Len(questions[q].answers)
                        /\ IsStr(questions[q].answers[i].next)}}

StateIds ==
    {Num(n) : n \in 0..MaxStateNum} \cup {Named(t) : t \in NamedTargets \cup {"nowhere"}}

(***************************************************************************)
(* NeedGodScriptFlow.add_answer and process_answer                         *)
(***************************************************************************)
\* line 784 with insert(0, ...) for append: the entry goes to the front
add_answer_AtFront(history, question_num, a) ==
    <<[question_num  |-> question_num,
       question_text |-> IF Truthy(get_question(question_num))
                         THEN get_question(question_num).text
                         ELSE "Special Response",
       answer        |-> a]>> \o history

\* the entry add_answer appends; its wall-clock "timestamp" is left out, no
\* code reads it back
add_answer(history, question_num, a) ==
    Append(history,
           [question_num  |-> question_num,
            question_text |-> IF Truthy(get_question(question_num))
                              THEN get_question(question_num).text
                              ELSE "Special Response",
            answer        |-> a])

\* the test of line 962 left out: an entry is recorded at any state
RecordsAlways(q) == TRUE

\* lines 961-964: whether an entry is recorded for the current state
Records(q) == Truthy(get_question(q))

\* lines 969-976: the state process_answer leaves in current_question
Advance(q, nq) == IF Truthy(nq) THEN nq ELSE q

\* process_answer with one more statement, which empties the rules of the
\* node it has just looked up (current_q_data["answers"] = {})
process_answer_WritesNode(a) ==
    LET appended == add_answer(flow_history, current_question, a)
        nq       == get_next_question(current_question, a)
    IN  /\ script_data' =
              IF Records(current_question)
              THEN [script_data EXCEPT ![current_question.num].answers = <<>>]
              ELSE script_data
        /\ flow_history' =
              IF Records(current_question) THEN appended ELSE flow_history
        /\ conversation_history' =
              IF Records(current_question) THEN appended ELSE conversation_history
        /\ answered' = IF Records(current_question) THEN answered + 1 ELSE answered
        /\ resets' = 0
        /\ next_q' = nq
        /\ current_question' = Advance(current_question, nq)
        /\ pc' = "rerun"

process_answer(a) ==
    LET appended == add_answer(flow_history, current_question, a)
        nq       == get_next_question(current_question, a)
    IN  /\ script_data' = script_data
        /\ flow_history' =
              IF Records(current_question) THEN appended ELSE flow_history
        /\ conversation_history' =
              IF Records(current_question) THEN appended ELSE conversation_history
        /\ answered' = IF Records(current_question) THEN answered + 1 ELSE answered
        /\ resets' = 0
        /\ next_q' = nq
        /\ current_question' = Advance(current_question, nq)
        /\ pc' = "rerun"

(***************************************************************************)
(* main: one run of the script, and the widgets it draws                   *)
(***************************************************************************)
\* lines 797-799 left out: a str is kept
EnsureNumberKept(q) == q

\* lines 797-799
EnsureNumber(q) == IF ~IsNumber(q) THEN Num(1) ELSE q

\* A run of main up to the drawn page.  The except arm of lines 830-832 is
\* not taken: total_questions is 38 and the division is of two numbers.
main ==
    /\ pc = "rerun"
    /\ current_question' = EnsureNumber(current_question)
    /\ pc' = "rendered"
    /\ UNCHANGED <<script_data, conversation_history, flow_history, next_q,
                   custom_answer, answered, resets>>
    /\ UNCHANGED resolver_vars

\* lines 890-894: the page shows the answer widgets
QuestionShown ==
    /\ pc = "rendered"
    /\ ~IsStr(current_question)
    /\ Truthy(get_question(current_question))

\* line 812 left out: the session's history is the flow's, as line 964 leaves it
ClearedHistoryKept == flow_history

\* what "Reset Conversation" leaves in the session's history
ClearedHistory == <<>>

\* lines 810-813
ResetConversation ==
    /\ pc = "rendered"
    /\ resets < MaxResets
    /\ current_question' = Num(1)
    /\ conversation_history' = ClearedHistory
    /\ answered' = 0
    /\ resets' = resets + 1
    /\ next_q' = Unset
    /\ pc' = "rerun"
    /\ UNCHANGED <<script_data, flow_history, custom_answer>>
    /\ UNCHANGED resolver_vars

\* lines 904-918: the keys that get a quick answer button
QuickButtons(q) ==
    LET expected_answers == [i \in 1..Len(get_question(q).answers) |->
                                get_question(q).answers[i].key]
    IN  IF Len(expected_answers) <= 3 THEN expected_answers
        ELSE SubSeq(expected_answers, 1, 3)

QuickAnswer ==
    /\ QuestionShown
    /\ Len(flow_history) < MaxHist
    /\ \E i \in 1..Len(QuickButtons(current_question)) :
          process_answer(QuickButtons(current_question)[i])
    /\ UNCHANGED custom_answer
    /\ UNCHANGED resolver_vars

\* lines 922-932
SubmitCustomAnswer ==
    /\ QuestionShown
    /\ Len(flow_history) < MaxHist
    /\ \E text \in CustomAnswers :
          /\ custom_answer' = text
          /\ IF strip(text) # <<>>
             THEN process_answer(strip(text))
             ELSE UNCHANGED <<script_data, current_question, conversation_history, flow_history,
                              pc, next_q, answered, resets>>
    /\ UNCHANGED resolver_vars

\* the same button, pressed by an operator who retypes one text every time
SubmitSameAnswer ==
    /\ QuestionShown
    /\ Len(flow_history) < MaxHistDeep
    /\ strip(custom_answer) # <<>>
    /\ process_answer(strip(custom_answer))
    /\ UNCHANGED custom_answer
    /\ UNCHANGED resolver_vars

\* one call of the resolver on the drawn arguments
Resolve ==
    /\ result = Unset
    /\ result' = get_next_question(current_q, answer)
    /\ UNCHANGED <<current_q, answer, trigger, matched>>
    /\ UNCHANGED session_vars

\* a bool, as a value of its own kind
Bool(b) == [bool |-> b]

\* one evaluation of the test of line 709, on the answer as line 705 leaves it
Match ==
    /\ matched = Unset
    /\ matched' = Bool(KeyMatches(trigger, strip(lower(answer))))
    /\ UNCHANGED <<current_q, answer, result, trigger>>
    /\ UNCHANGED session_vars

\* one call of process_answer, whatever the current state
CallProcessAnswer ==
    /\ pc = "rendered"
    /\ \E a \in RawAnswers : process_answer(a)
    /\ UNCHANGED custom_answer
    /\ UNCHANGED resolver_vars

\* process_answer called with the text the resolver call is made with
AnswerAsResolved ==
    /\ pc = "rendered"
    /\ process_answer(answer)
    /\ UNCHANGED custom_answer
    /\ UNCHANGED resolver_vars

(***************************************************************************)
(* Specifications                                                          *)
(***************************************************************************)
\* the session after the first run of main (lines 791-802)
FreshSession ==
    /\ script_data = questions
    /\ current_question = Num(1)
    /\ conversation_history = <<>>
    /\ flow_history = <<>>
    /\ pc = "rendered"
    /\ next_q = Unset
    /\ answered = 0
    /\ resets = 0

NoCall ==
    /\ current_q = Num(1)
    /\ answer = <<>>
    /\ result = Unset
    /\ trigger = <<>>
    /\ matched = Unset

Init == FreshSession /\ custom_answer = <<>> /\ NoCall

Next == QuickAnswer \/ SubmitCustomAnswer \/ ResetConversation \/ main

\* any operator, short conversations
Spec == Init /\ [][Next]_vars

InitDeep == FreshSession /\ custom_answer \in DeepAnswers /\ NoCall

NextDeep == SubmitSameAnswer \/ main

\* a single-minded operator, conversations to the end of the script
SpecDeep == InitDeep /\ [][NextDeep]_vars

InitResolve ==
    /\ FreshSession /\ custom_answer = <<>>
    /\ current_q \in StateIds
    /\ answer \in RawAnswers
    /\ result = Unset
    /\ trigger = <<>>
    /\ matched = Unset

NextResolve == Resolve

\* the resolver alone, on every state identifier and answer of the bounds
SpecResolve == InitResolve /\ [][NextResolve]_vars

\* every trigger of the graph, and the two of the documentation's example
Triggers ==
    {questions[q].answers[i].key :
        <<q, i>> \in {<<q, i>> \in (DOMAIN questions) \X (1..4) :
                        i <= Len(questions[q].answers)}}
    \cup {<<"o","k">>, <<"o","k","a","y">>}

InitMatch ==
    /\ FreshSession /\ custom_answer = <<>>
    /\ current_q = Num(1)
    /\ result = Unset
    /\ answer \in RawAnswers
    /\ trigger \in Triggers
    /\ matched = Unset

NextMatch == Match

\* the match test alone, on every trigger and answer of the bounds
SpecMatch == InitMatch /\ [][NextMatch]_vars

\* histories a session may hold when process_answer is called
SeedHistories ==
    {<<>>, add_answer(<<>>, Num(1), <<"b","a","n","a","n","a">>)}

InitProcess ==
    /\ script_data = questions
    /\ current_question \in StateIds
    /\ flow_history \in SeedHistories
    /\ conversation_history \in {<<>>, flow_history}
    /\ answered = Len(conversation_history)
    /\ pc = "rendered"
    /\ next_q = Unset
    /\ resets = 0
    /\ custom_answer = <<>>
    /\ NoCall

NextProcess == CallProcessAnswer

\* process_answer alone, called in a session at any state identifier
SpecProcess == InitProcess /\ [][NextProcess]_vars

InitPure ==
    /\ script_data = questions
    /\ current_question \in StateIds
    /\ flow_history \in SeedHistories
    /\ conversation_history \in {<<>>, flow_history}
    /\ answered = Len(conversation_history)
    /\ pc = "rendered"
    /\ next_q = Unset
    /\ resets = 0
    /\ custom_answer = <<>>
    /\ current_q = current_question
    /\ answer \in RawAnswers
    /\ result = Unset
    /\ trigger = <<>>
    /\ matched = Unset

NextPure == AnswerAsResolved \/ Resolve

\* one state and one answer resolved twice: by process_answer inside a
\* session, and by a call of the resolver made before or after it
SpecPure == InitPure /\ [][NextPure]_vars

InitQuick ==
    /\ FreshSession /\ custom_answer = <<>>
    /\ current_q \in {Num(n) : n \in DOMAIN questions}
    /\ answer \in {questions[current_q.num].answers[i].key :
                      i \in 1..Len(questions[current_q.num].answers)}
    /\ result = Unset
    /\ trigger = <<>>
    /\ matched = Unset

NextQuick == Resolve

\* the resolver on every node with each of the node's own triggers as the
\* answer, which is what a quick answer button submits (lines 911, 917)
SpecQuick == InitQuick /\ [][NextQuick]_vars

(***************************************************************************)
(* Properties of the resolver (SpecResolve)                                *)
(***************************************************************************)
\* the resolver call has returned
Called == result # Unset

\* a numbered state that is a key of the graph
IsKey(q) == IsNumber(q) /\ q.num \in DOMAIN questions

Rules(q) == questions[q.num].answers

\* the normalized answer: lowercase, outer whitespace removed
Normalized(a) == strip(lower(a))

\* the rules of q whose trigger and the answer contain one another
MatchingRules(q, a) ==
    {i \in 1..Len(Rules(q)) : KeyMatches(Rules(q)[i].key, Normalized(a))}

Contains(a, word) == in(word, Normalized(a))

BothHeavenAndHell(a) ==
    Contains(a, <<"h","e","a","v","e","n">>) /\ Contains(a, <<"h","e","l","l">>)

OtherOrUnsure(a) ==
    \/ Contains(a, <<"r","e","i","n","c","a","r","n","a","t","i","o","n">>)
    \/ Contains(a, <<"o","t","h","e","r">>)
    \/ Contains(a, <<"n","o","t"," ","s","u","r","e">>)

\* s+1 when the graph has it, the terminal sentinel otherwise
SuccessorOrTerminal(q) ==
    IF \E k \in DOMAIN questions : k = q.num + 1 THEN [num |-> q.num + 1] ELSE None

\* C1, as stated: at any numbered state of the graph, an answer that matches
\* no rule resolves to s+1 if the graph has it and to the terminal sentinel
\* otherwise.
C1_FallbackEverywhere ==
    (Called /\ IsKey(current_q) /\ MatchingRules(current_q, answer) = {})
        => result = SuccessorOrTerminal(current_q)

\* C1, amended: at any numbered state of the graph, an answer that matches no
\* rule and, at state 1, does not contain both "heaven" and "hell", resolves to
\* s+1 if the graph has it and to the terminal sentinel otherwise.
C1_Fallback ==
    (Called /\ IsKey(current_q) /\ MatchingRules(current_q, answer) = {}
            /\ ~(current_q = Num(1) /\ BothHeavenAndHell(answer)))
        => result = SuccessorOrTerminal(current_q)

\* an unmatched answer at a state whose successor is missing ended the script
C1_Witness ==
    /\ Called /\ IsKey(current_q) /\ MatchingRules(current_q, answer) = {}
    /\ current_q.num + 1 \notin DOMAIN questions
    /\ result = None

\* C2: when an answer matches several triggers of a node, the resolver returns
\* the next of the earliest declared of them.
C2_FirstMatchWins ==
    (Called /\ IsKey(current_q) /\ MatchingRules(current_q, answer) # {})
        => \E i \in MatchingRules(current_q, answer) :
              /\ \A j \in MatchingRules(current_q, answer) : i <= j
              /\ result = Rules(current_q)[i].next

\* two matching triggers with different targets, the earlier one returned
C2_Witness ==
    /\ Called /\ IsKey(current_q)
    /\ \E i, j \in MatchingRules(current_q, answer) :
          /\ i < j
          /\ \A k \in MatchingRules(current_q, answer) : i <= k
          /\ Rules(current_q)[i].next # Rules(current_q)[j].next
          /\ result = Rules(current_q)[i].next

\* C3: an empty or whitespace-only answer matches no trigger, so at every
\* numbered state of the graph it resolves to the fallback outcome (no override
\* of state 1 applies to an empty answer): s+1, or the terminal sentinel.
C3_EmptyAnswerFallsThrough ==
    (Called /\ IsKey(current_q) /\ Normalized(answer) = <<>>)
        => result = SuccessorOrTerminal(current_q)

\* C10, as stated: at state 1 an answer that matches no rule resolves to
\* heaven_question if it contains both "heaven" and "hell", and to 2 if it
\* contains "reincarnation", "other" or "not sure".
C10_OverridesAsStated ==
    (Called /\ current_q = Num(1) /\ MatchingRules(current_q, answer) = {})
        => /\ BothHeavenAndHell(answer) => result = Named("heaven_question")
           /\ OtherOrUnsure(answer) => result = Num(2)

\* C10, amended: at state 1 an answer that matches no rule resolves to
\* heaven_question if it contains both "heaven" and "hell", and to 2 if it
\* contains "reincarnation", "other" or "not sure" and not both "heaven" and
\* "hell"; "I believe in Heaven and Hell" resolves to heaven_question and
\* "reincarnation maybe" to 2.
C10_Overrides ==
    (Called /\ current_q = Num(1))
        => /\ MatchingRules(current_q, answer) = {}
              => /\ BothHeavenAndHell(answer) => result = Named("heaven_question")
                 /\ (OtherOrUnsure(answer) /\ ~BothHeavenAndHell(answer))
                       => result = Num(2)
           /\ answer = <<"I"," ","b","e","l","i","e","v","e"," ","i","n"," ",
                         "H","e","a","v","e","n"," ","a","n","d"," ","H","e","l","l">>
              => result = Named("heaven_question")
           /\ answer = <<"r","e","i","n","c","a","r","n","a","t","i","o","n"," ",
                         "m","a","y","b","e">>
              => result = Num(2)

\* an answer outside every rule of state 1, with both words, sent to the digression
C10_Witness ==
    /\ Called /\ current_q = Num(1) /\ MatchingRules(current_q, answer) = {}
    /\ BothHeavenAndHell(answer)
    /\ result = Named("heaven_question")

\* C11: at state 1 a matching rule decides, whatever else the answer
\* contains; the overrides decide only when no rule matched, heaven-and-hell
\* before the others; the s+1 fallback is left for the rest.
C11_Precedence ==
    (Called /\ current_q = Num(1))
        => result =
             IF MatchingRules(current_q, answer) # {}
             THEN Rules(current_q)[CHOOSE i \in MatchingRules(current_q, answer) :
                      \A j \in MatchingRules(current_q, answer) : i <= j].next
             ELSE IF BothHeavenAndHell(answer) THEN Named("heaven_question")
             ELSE IF OtherOrUnsure(answer) THEN Num(2)
             ELSE SuccessorOrTerminal(current_q)

\* an answer with "heaven" and "hell" that a rule of state 1 sent elsewhere
C11_Witness ==
    /\ Called /\ current_q = Num(1)
    /\ MatchingRules(current_q, answer) # {}
    /\ BothHeavenAndHell(answer)
    /\ result # Named("heaven_question")

\* a value the resolver may return: a positive int, a non-empty str, or None
IsStateOrTerminal(v) ==
    \/ v = None
    \/ IsNumber(v) /\ v.num >= 1
    \/ IsStr(v) /\ v.tag # ""

\* C13: on every state identifier (a key of the graph, an absent integer, a
\* named tag) and every answer, the resolver returns; no exception leaves it,
\* and what it returns is a state identifier or the terminal sentinel.
C13_Total ==
    Called => (DOMAIN result # {"raised"} /\ IsStateOrTerminal(result))

\* the resolver applied to a named state, answered by the terminal sentinel
C13_Witness == Called /\ IsStr(current_q) /\ result = None

\* x occurs in y as a run of consecutive characters
Occurs(x, y) ==
    \E i \in 0..Len(y) :
        /\ i + Len(x) <= Len(y)
        /\ \A k \in 1..Len(x) : y[i + k] = x[k]

\* the rules of q whose trigger occurs in the normalized answer, or the
\* normalized answer in the trigger
ContainingRules(q, a) ==
    {i \in 1..Len(Rules(q)) :
        \/ Occurs(Rules(q)[i].key, Normalized(a))
        \/ Occurs(Normalized(a), Rules(q)[i].key)}

\* C14: a rule matches exactly when its trigger is a substring of the
\* normalized answer or the normalized answer a substring of the trigger: the
\* resolver returns the next of the first such rule, and goes on to the
\* overrides and the fallback only when there is none.
C14_BidirectionalContainment ==
    (Called /\ IsKey(current_q))
        => result =
             IF ContainingRules(current_q, answer) # {}
             THEN Rules(current_q)[CHOOSE i \in ContainingRules(current_q, answer) :
                      \A j \in ContainingRules(current_q, answer) : i <= j].next
             ELSE IF current_q = Num(1) /\ BothHeavenAndHell(answer)
                  THEN Named("heaven_question")
                  ELSE SuccessorOrTerminal(current_q)

\* a non-empty answer shorter than the trigger it lies in, which no trigger
\* lies in, sent along that rule's edge and not to the fallback
C14_Witness ==
    /\ Called /\ IsKey(current_q)
    /\ Normalized(answer) # <<>>
    /\ ContainingRules(current_q, answer) # {}
    /\ \A i \in ContainingRules(current_q, answer) :
          ~Occurs(Rules(current_q)[i].key, Normalized(answer))
    /\ result # SuccessorOrTerminal(current_q)

\* the letters of s in upper case, character by character
UpperOf(s) ==
    [i \in 1..Len(s) |->
        IF \E k \in 1..Len(LowerCase) : LowerCase[k] = s[i]
        THEN UpperCase[CHOOSE k \in 1..Len(LowerCase) : LowerCase[k] = s[i]]
        ELSE s[i]]

\* s with its first character alone in upper case
Capitalized(s) ==
    IF s = <<>> THEN s ELSE UpperOf(SubSeq(s, 1, 1)) \o SubSeq(s, 2, Len(s))

\* runs of whitespace an operator may leave around a text
Margins == {<<>>, <<" ">>, <<"\n", "\t">>}

\* texts that differ from a only in letter case and in outer whitespace
CaseAndMarginVariants(a) ==
    {l \o c \o r : l \in Margins, r \in Margins,
                   c \in {a, UpperOf(a), Capitalized(a)}}

EveryDay == <<"e","v","e","r","y"," ","d","a","y">>

EveryDayTwoSpaces == <<"e","v","e","r","y"," "," ","d","a","y">>

\* C16: answers that differ only in letter case and in leading or trailing
\* whitespace get the same next state at every state; inner whitespace and
\* punctuation are kept, so at state 32 "every  day" with two inner spaces
\* matches no trigger and ends the conversation where "every day" goes to 34.
C16_CaseAndTrimOnly ==
    Called =>
        /\ \A a2 \in CaseAndMarginVariants(answer) :
              get_next_question(current_q, a2) = result
        /\ (current_q = Num(32) /\ answer = EveryDayTwoSpaces)
              => (ContainingRules(current_q, answer) = {} /\ result = None)
        /\ (current_q = Num(32) /\ answer = EveryDay) => result = Num(34)

\* an answer typed with capitals and outer blanks, sent along the rule of its
\* trimmed lowercase text and not to the fallback
C16_Witness ==
    /\ Called /\ IsKey(current_q)
    /\ answer = <<" ","Y","E","S"," ">>
    /\ result = get_next_question(current_q, <<"y","e","s">>)
    /\ result # SuccessorOrTerminal(current_q)

\* C25: at every numbered state of the graph and for every answer, an integer
\* the resolver returns is greater than the state it was asked at and is a key
\* of the graph: numbered flow only moves forward.
C25_ForwardOnly ==
    (Called /\ IsKey(current_q) /\ IsNumber(result))
        => (result.num > current_q.num /\ IsKey(result))

\* a rule's edge that jumps forward over more than one state
C25_Witness ==
    /\ Called /\ IsKey(current_q) /\ IsNumber(result)
    /\ result.num > current_q.num + 1
    /\ IsKey(result)

\* C26: a trigger submitted as the answer at its own node resolves to that
\* trigger's own next, also where an earlier declared trigger contains it or
\* lies in it.
C26_QuickSelectConsistent ==
    Called =>
        \A i \in 1..Len(Rules(current_q)) :
            Rules(current_q)[i].key = answer => result = Rules(current_q)[i].next

\* a trigger resolved at its node behind an earlier declared trigger that it
\* contains or lies in
C26_Witness ==
    /\ Called
    /\ \E i \in 2..Len(Rules(current_q)) :
          /\ Rules(current_q)[i].key = answer
          /\ \E j \in 1..(i - 1) :
                \/ Occurs(Rules(current_q)[j].key, answer)
                \/ Occurs(answer, Rules(current_q)[j].key)
          /\ result = Rules(current_q)[i].next

\* C28: at the entry state the resolver has two outcomes: for every answer,
\* the empty one included, it returns 2 or heaven_question.
C28_EntryOutcomes ==
    (Called /\ current_q = Num(1))
        => result \in {Num(2), Named("heaven_question")}

\* the empty answer resolved at the entry state, along the first rule
C28_Witness ==
    /\ Called /\ current_q = Num(1)
    /\ answer = <<>>
    /\ result = Named("heaven_question")

\* C30: of the two overrides of state 1 the heaven-and-hell test comes
\* first: an answer that matches no rule of state 1 and contains "heaven",
\* "hell" and one of "reincarnation", "other", "not sure" is sent to
\* heaven_question, not to 2.
C30_HeavenAndHellFirst ==
    (/\ Called /\ current_q = Num(1)
     /\ ContainingRules(current_q, answer) = {}
     /\ Occurs(<<"h","e","a","v","e","n">>, Normalized(answer))
     /\ Occurs(<<"h","e","l","l">>, Normalized(answer))
     /\ \/ Occurs(<<"r","e","i","n","c","a","r","n","a","t","i","o","n">>,
                  Normalized(answer))
        \/ Occurs(<<"o","t","h","e","r">>, Normalized(answer))
        \/ Occurs(<<"n","o","t"," ","s","u","r","e">>, Normalized(answer)))
        => result = Named("heaven_question")

\* "heaven, hell or other" at state 1: no rule, both overrides apply
C30_Witness ==
    /\ Called /\ current_q = Num(1)
    /\ ContainingRules(current_q, answer) = {}
    /\ Occurs(<<"h","e","a","v","e","n">>, Normalized(answer))
    /\ Occurs(<<"h","e","l","l">>, Normalized(answer))
    /\ Occurs(<<"o","t","h","e","r">>, Normalized(answer))
    /\ result = Named("heaven_question")

(***************************************************************************)
(* Properties of the match test (SpecMatch)                                *)
(***************************************************************************)
\* the test has been evaluated
Tested == matched # Unset

\* C15, as stated: "yes please" matches the trigger "yes"; "ok" matches the
\* trigger "ok" and does not match the trigger "okay".
C15_ExamplesAsStated ==
    Tested =>
        /\ (answer = <<"y","e","s"," ","p","l","e","a","s","e">>
                /\ trigger = <<"y","e","s">>) => matched = Bool(TRUE)
        /\ (answer = <<"o","k">> /\ trigger = <<"o","k">>) => matched = Bool(TRUE)
        /\ (answer = <<"o","k">> /\ trigger = <<"o","k","a","y">>)
                => matched = Bool(FALSE)

\* C15, amended: "yes please" matches the trigger "yes"; "ok" matches the
\* trigger "ok" and, being a substring of it, the trigger "okay" as well.
C15_Examples ==
    Tested =>
        /\ (answer = <<"y","e","s"," ","p","l","e","a","s","e">>
                /\ trigger = <<"y","e","s">>) => matched = Bool(TRUE)
        /\ (answer = <<"o","k">> /\ trigger = <<"o","k">>) => matched = Bool(TRUE)
        /\ (answer = <<"o","k">> /\ trigger = <<"o","k","a","y">>)
                => matched = Bool(TRUE)

\* the answer "ok" tested against the trigger "okay", and found to match
C15_Witness ==
    /\ answer = <<"o","k">> /\ trigger = <<"o","k","a","y">>
    /\ matched = Bool(TRUE)

(***************************************************************************)
(* Properties of the session (Spec, SpecDeep)                              *)
(***************************************************************************)
\* the digressions main has guidance for (lines 847-882)
Authored == {"heaven_question", "god_analogy", "conclusion"}

\* one answer submitted to a drawn page, and the page drawn after it
Step(q, a) ==
    IF Records(q) THEN EnsureNumber(Advance(q, get_next_question(q, a))) ELSE q

\* the answers of a history, submitted in order to a session at state q
RECURSIVE Replay(_, _)
Replay(q, history) ==
    IF history = <<>> THEN q
    ELSE Replay(Step(q, Head(history).answer), Tail(history))

\* C4: once the resolver has returned the terminal sentinel for the current
\* state, no later step makes the history longer.
C4_TerminalAbsorbing ==
    [][next_q = None => Len(conversation_history') <= Len(conversation_history)]_vars

\* C5: the history is as long as the number of answers recorded since the
\* last reset (since the start if there was none).
C5_HistoryCountsAnswers == Len(conversation_history) = answered

\* C6: a reset leaves state 1 and an empty history, and at no later point
\* does the session's history hold more entries than were recorded since that
\* reset, that is, an entry from before it.
C6_ResetAllOrNothing ==
    [][/\ ResetConversation =>
             (current_question' = Num(1) /\ conversation_history' = <<>>)
       /\ Len(conversation_history') <= answered']_vars

\* C7: on the page drawn after the resolver routed to an authored digression,
\* the current state is that digression.
C7_DigressionPresented ==
    (pc = "rendered" /\ IsStr(next_q) /\ next_q.tag \in Authored)
        => current_question = next_q

C9_ReplayRoundTrip ==
    pc = "rendered" => Replay(Num(1), conversation_history) = current_question

\* a step in which process_answer ran
ProcessAnswerStep == pc = "rendered" /\ pc' = "rerun" /\ next_q' # Unset

\* the last entry of a history
Last(history) == history[Len(history)]

C17_MissingStateTerminates ==
    [][(ProcessAnswerStep /\ ~IsKey(current_question))
          => /\ next_q' = None
             /\ current_question' = current_question
             /\ conversation_history' = conversation_history
             /\ flow_history' = flow_history]_vars

\* process_answer has returned in a session that sits at a state outside the
\* graph and holds an earlier entry
C17_Witness ==
    /\ pc = "rerun" /\ next_q = None
    /\ ~IsKey(current_question)
    /\ conversation_history # <<>>

\* C18: the only transitions out of heaven_question are to state 4 and to
\* state 17, the only one out of god_analogy is to state 5, and there is none
\* out of conclusion.
C18_DigressionEdges ==
    [][/\ current_question = Named("heaven_question")
              => current_question' \in {current_question, Num(4), Num(17)}
       /\ current_question = Named("god_analogy")
              => current_question' \in {current_question, Num(5)}
       /\ current_question = Named("conclusion")
              => current_question' = current_question]_vars

\* a step in which "Reset Conversation" ran
ResetStep == resets' = resets + 1

\* C19: every Reset Conversation leaves current state 1 and an empty history,
\* and one that follows another, with no answer in between, changes nothing
\* the first had left.
C19_ResetIdempotent ==
    [][ResetStep
          => /\ current_question' = Num(1)
             /\ conversation_history' = <<>>
             /\ resets >= 1
                   => /\ current_question' = current_question
                      /\ conversation_history' = conversation_history
                      /\ flow_history' = flow_history]_vars

\* Reset Conversation pressed twice in a row in a session that had answers
C19_Witness ==
    /\ resets = 2 /\ pc = "rerun"
    /\ flow_history # <<>>
    /\ current_question = Num(1) /\ conversation_history = <<>>

\* h is an initial segment of g
IsPrefix(h, g) == Len(h) <= Len(g) /\ SubSeq(g, 1, Len(h)) = h

\* C20: across a process_answer call the history before the call is an
\* initial segment of the history after it, and no step other than Reset
\* Conversation leaves a history the earlier one is not an initial segment of.
C20_AppendOnly ==
    [][/\ ProcessAnswerStep => IsPrefix(conversation_history, conversation_history')
       /\ IsPrefix(conversation_history, conversation_history') \/ ResetStep]_vars

\* process_answer has returned on a history of at least one earlier entry
C20_Witness ==
    /\ pc = "rerun" /\ next_q # Unset
    /\ Len(conversation_history) >= 2
    /\ resets = 0

\* C21: the script graph is read-only after construction: no answer, resolver
\* call, recorded entry, rerun or reset changes a node's text or rules, so at
\* every point of a conversation the graph is the one parse_script built.
C21_GraphReadOnly ==
    [][script_data = questions /\ script_data' = script_data]_vars

\* an answer recorded after a reset, in a session whose graph is still the
\* one parse_script built
C21_Witness ==
    /\ pc = "rerun" /\ next_q # Unset
    /\ Len(conversation_history) > answered
    /\ script_data = questions

(***************************************************************************)
(* Properties of the resolver inside and outside a session (SpecPure)      *)
(***************************************************************************)
\* C22: the resolver gives the same result for the same state and answer,
\* whether it is called by process_answer or aside, before or after the
\* session recorded the answer and moved on: the histories, the current
\* state and the earlier call do not enter the result.
C22_ResolverPure ==
    (Called /\ next_q # Unset) => result = next_q

\* the resolver called after process_answer had recorded the answer and moved
\* the session on
C22_Witness ==
    /\ Called /\ next_q # Unset
    /\ Len(flow_history) = 2
    /\ current_question # current_q
    /\ IsNumber(result)

(***************************************************************************)
(* Properties of the constructed graph (Spec)                              *)
(***************************************************************************)
\* the digressions main gives onward buttons to (lines 856-861, 870-872):
\* states of the conversation, not ends of it
Onward == {"heaven_question", "god_analogy"}

\* an edge target that is meant to end the conversation
DeliberateTerminal(n) == n = None \/ (IsStr(n) /\ n.tag \notin Onward)

\* C23: a graph with an edge whose next has no node and is no deliberate
\* terminal (or with a state defined twice) is rejected when it is built, so
\* the graph a session runs on has none: every edge leads to a node or to a
\* deliberate terminal.
C23_MalformedGraphRejected ==
    \A q \in DOMAIN script_data :
        \A i \in 1..Len(script_data[q].answers) :
            \/ IsKey(NextAction(script_data[q].answers[i]))
            \/ DeliberateTerminal(NextAction(script_data[q].answers[i]))

(***************************************************************************)
(* Properties of the drawn page (Spec, SpecDeep)                           *)
(***************************************************************************)
\* C24: on every drawn page the current state is a numeric key of the graph:
\* a named state written by process_answer does not survive the rerun, and
\* no answers, resets and reruns leave an integer the graph does not hold.
C24_RenderedAtNumericKey ==
    pc = "rendered" => IsKey(current_question)

\* a page drawn late in a conversation, after the resolver had routed to a
\* named state
C24_Witness ==
    /\ pc = "rendered" /\ IsStr(next_q)
    /\ Len(flow_history) >= 10
    /\ IsKey(current_question)

\* the entries of history recorded at state 32 with an answer that matches
\* one of its two triggers
EntriesPast32(history) ==
    {i \in 1..Len(history) :
        /\ history[i].question_num = Num(32)
        /\ ContainingRules(Num(32), history[i].answer) # {}}

\* C27: question 33 does not exist, so at state 32 the resolver returns 34
\* for an answer that matches "everyday" or "every day" and None for every
\* other; the current state is among 34..39 only when the history holds an
\* entry of state 32 with a matching answer; and an operator whose answer
\* matches no trigger anywhere is asked 1, 2, ..., 32 in turn and then stays
\* at 32.
C27_NoSuccessorAt32 ==
    [][/\ (ProcessAnswerStep /\ current_question = Num(32))
            => next_q' = IF ContainingRules(Num(32), strip(custom_answer)) # {}
                         THEN Num(34) ELSE None
       /\ (IsNumber(current_question') /\ current_question'.num >= 34)
            => EntriesPast32(conversation_history') # {}
       /\ custom_answer = <<"x">>
            => /\ current_question'.num <= 32
               /\ \A i \in 1..Len(conversation_history') :
                     conversation_history'[i].question_num
                        = Num(IF i <= 32 THEN i ELSE 32)]_vars

\* the operator who matches nothing, held at state 32 after one more answer
C27_Witness ==
    /\ custom_answer = <<"x">>
    /\ pc = "rendered" /\ current_question = Num(32) /\ next_q = None
    /\ Len(conversation_history) = 33

\* an entry recorded at a numbered key of the graph, under that node's text
RecordedAtNode(entry) ==
    /\ IsKey(entry.question_num)
    /\ entry.question_text = questions[entry.question_num.num].text

\* C29: every entry of the history was recorded at a numbered key of the
\* graph with that node's text as its question_text: the placeholder
\* "Special Response" and named states never get into the history.
C29_EntriesAtNodes ==
    /\ \A i \in 1..Len(conversation_history) : RecordedAtNode(conversation_history[i])
    /\ \A i \in 1..Len(flow_history) : RecordedAtNode(flow_history[i])

\* process_answer has recorded an entry at a node other than the first,
\* behind an earlier entry
C29_Witness ==
    /\ pc = "rerun" /\ next_q # Unset
    /\ Len(conversation_history) = 2
    /\ conversation_history[2].question_num # Num(1)
    /\ RecordedAtNode(conversation_history[2])

(***************************************************************************)
(* src/needgod_app.py: the basic app.  Its session has the same fields     *)
(* (current_question, conversation_history) and its ScriptFlow the same    *)
(* script_data["questions"], filled by parse_script from the numbered      *)
(* headings of script_content.txt; ScriptFlow.conversation_history is      *)
(* never written and stays [].                                             *)
(***************************************************************************)
\* largest question number a script text of the check has a heading for
MaxParsed == 4

\* longest history the operator builds in SpecBasic
MaxHistBasic == 3

\* needgod_app.py lines 68-73: the node parse_script stores for a heading
\* (its "next_questions" and "keywords" are left out, the flow reads neither)
ParsedNode(n) == [text |-> "question text", answers |-> <<>>]

\* the dicts parse_script may leave in script_data["questions"]: one node for
\* every number the text has a heading for
ParsedScripts ==
    {[n \in S |-> ParsedNode(n)] : S \in SUBSET (1..MaxParsed)}

\* any(word in answer_lower for word in words)
AnyWordIn(words, answer_lower) == \E w \in words : in(w, answer_lower)

\* ScriptFlow.get_next_question (needgod_app.py lines 111-128)
ScriptFlow_get_next_question(q, a) ==
    LET answer_lower == lower(a)
    IN  IF AnyWordIn({<<"y","e","s">>, <<"t","r","u","e">>,
                      <<"c","o","r","r","e","c","t">>, <<"a","g","r","e","e">>},
                     answer_lower)
        THEN Num(q.num + 1)
        ELSE IF AnyWordIn({<<"n","o">>, <<"f","a","l","s","e">>,
                           <<"i","n","c","o","r","r","e","c","t">>,
                           <<"d","i","s","a","g","r","e","e">>},
                          answer_lower)
        THEN Num(q.num + 1)
        ELSE IF q.num + 1 \in DOMAIN script_data THEN Num(q.num + 1) ELSE None

\* needgod_app.py line 277 without its membership test (`if next_q:`)
ScriptFlow_AdvanceUnchecked(q, nq) == IF Truthy(nq) THEN nq ELSE q

\* needgod_app.py lines 277-281: the state process_answer leaves
ScriptFlow_Advance(q, nq) ==
    IF Truthy(nq) /\ nq.num \in DOMAIN script_data THEN nq ELSE q

\* process_answer of needgod_app.py (lines 261-284)
ScriptFlow_process_answer(a) ==
    LET current_q_data == get_question(current_question)
        nq             == ScriptFlow_get_next_question(current_question, a)
    IN  /\ conversation_history' =
              IF Truthy(current_q_data)
              THEN Append(conversation_history,
                          [question_num  |-> current_question,
                           question_text |-> current_q_data.text,
                           answer        |-> a])
              ELSE conversation_history
        /\ next_q' = nq
        /\ current_question' = ScriptFlow_Advance(current_question, nq)
        /\ pc' = "rerun"
        /\ UNCHANGED <<script_data, flow_history, answered, resets>>

\* needgod_app.py lines 178, 193-206: the page shows the answer widgets
BasicQuestionShown ==
    /\ pc = "rendered"
    /\ Truthy(get_question(current_question))
    /\ Len(conversation_history) < MaxHistBasic

\* the three buttons of lines 196-206
BasicQuickAnswer ==
    /\ BasicQuestionShown
    /\ \E a \in {<<"Y","e","s">>, <<"N","o">>, <<"M","a","y","b","e">>} :
          ScriptFlow_process_answer(a)
    /\ UNCHANGED custom_answer
    /\ UNCHANGED resolver_vars

\* texts typed into the box of the basic app
BasicCustomAnswers ==
    { <<>>, <<" ">>, <<"b","a","n","a","n","a">>,
      <<" ","I"," ","d","i","s","a","g","r","e","e"," ">> }

\* lines 209-219
BasicSubmitCustomAnswer ==
    /\ BasicQuestionShown
    /\ \E text \in BasicCustomAnswers :
          /\ custom_answer' = text
          /\ IF strip(text) # <<>>
             THEN ScriptFlow_process_answer(strip(text))
             ELSE UNCHANGED <<script_data, current_question, conversation_history,
                              flow_history, pc, next_q, answered, resets>>
    /\ UNCHANGED resolver_vars

\* lines 149-152
BasicResetConversation ==
    /\ pc = "rendered"
    /\ current_question' = Num(1)
    /\ conversation_history' = <<>>
    /\ next_q' = Unset
    /\ pc' = "rerun"
    /\ UNCHANGED <<script_data, flow_history, custom_answer, answered, resets>>
    /\ UNCHANGED resolver_vars

\* one run of main of needgod_app.py: nothing of the session is rewritten
BasicMain ==
    /\ pc = "rerun"
    /\ pc' = "rendered"
    /\ UNCHANGED <<script_data, current_question, conversation_history, flow_history,
                   next_q, custom_answer, answered, resets>>
    /\ UNCHANGED resolver_vars

\* the session after the first run of main (lines 133-143), on any parsed script
InitBasic ==
    /\ script_data \in ParsedScripts
    /\ current_question = Num(1)
    /\ conversation_history = <<>>
    /\ flow_history = <<>>
    /\ pc = "rendered"
    /\ next_q = Unset
    /\ answered = 0
    /\ resets = 0
    /\ custom_answer = <<>>
    /\ NoCall

NextBasic ==
    BasicQuickAnswer \/ BasicSubmitCustomAnswer \/ BasicResetConversation \/ BasicMain

SpecBasic == InitBasic /\ [][NextBasic]_vars

\* q is a parsed question
Parsed(q) == IsNumber(q) /\ q.num \in DOMAIN script_data

\* C31: in the basic app the answer text does not steer the flow: at a parsed
\* question q, process_answer leaves the current question at q + 1 when
\* q + 1 is a parsed question and at q otherwise, whatever the answer, and
\* appends one entry; so the current question, once a parsed question, stays
\* one.
C31_BareSequential ==
    [][/\ (ProcessAnswerStep /\ Parsed(current_question))
            => /\ current_question' =
                     IF current_question.num + 1 \in DOMAIN script_data
                     THEN Num(current_question.num + 1)
                     ELSE current_question
               /\ Len(conversation_history') = Len(conversation_history) + 1
               /\ Last(conversation_history').question_num = current_question
       /\ Parsed(current_question) => Parsed(current_question')]_vars

\* "Yes" or "No" at a question with no parsed successor: the resolver names
\* q + 1, process_answer keeps q
C31_Witness ==
    /\ pc = "rerun"
    /\ IsNumber(next_q) /\ ~Parsed(next_q)
    /\ Parsed(current_question)
    /\ conversation_history # <<>>
    /\ Last(conversation_history).question_num = current_question

====
